---- MODULE Spec2Model ----
(***************************************************************************)
(* Model of thelink2012/injector: the raw_ptr handle over the process's    *)
(* memory and page protection, the scoped_unprotect guard, the guard-less  *)
(* unprotect/reprotect functions, read/write/fill and adjust.              *)
(*                                                                         *)
(* Scaling.  A byte holds ByteBase values instead of 256, a uintptr_t is   *)
(* PtrSize bytes wide (little endian, as on x86), so addresses and sizes   *)
(* live in 0 .. AddrSpace-1 and all pointer arithmetic is modulo AddrSpace.*)
(* A page is PageSize bytes.  Page 0 is not mapped (the null page); the    *)
(* MemSize bytes from MemBase on are.                                      *)
(***************************************************************************)
EXTENDS Integers, Sequences, FiniteSets, TLC

VARIABLES os, guards, last, pre, adj

vars == <<os, guards, last, pre, adj>>

\* ------------------------------------------------------------------ scale
ByteBase == 4
PtrSize == 2
PageSize == 3
AddrSpace == ByteBase ^ PtrSize

\* ----------------------------------------------------------------- bounds
MemSize == 6
NumGuards == 2
MaxOps == 2
MaxSearch == 3
MaxRefusals == 1
MaxCalls == 4

MemBase == PageSize
Addr == 0 .. (AddrSpace - 1)
Byte == 0 .. (ByteBase - 1)
MemAddrs == MemBase .. (MemBase + MemSize - 1)
PageOf(a) == a \div PageSize
MappedPages == {PageOf(a) : a \in MemAddrs}

\* Windows page protections (the DWORD values raw_ptr passes around).
PAGE_NOACCESS == "PAGE_NOACCESS"
PAGE_READONLY == "PAGE_READONLY"
PAGE_READWRITE == "PAGE_READWRITE"
PAGE_EXECUTE_READWRITE == "PAGE_EXECUTE_READWRITE"
Prot == {PAGE_NOACCESS, PAGE_READONLY, PAGE_READWRITE, PAGE_EXECUTE_READWRITE}
Readable(p) == p # PAGE_NOACCESS
Writable(p) == p \in {PAGE_READWRITE, PAGE_EXECUTE_READWRITE}

NoProt == "-"

\* What an uninitialised uint32_t may hold: any value; two stand for all.
Junk == {PAGE_NOACCESS, PAGE_EXECUTE_READWRITE}

\* uintptr_t / size_t arithmetic: unsigned, PtrSize bytes wide.
Wrap(x) == x % AddrSpace

\* ------------------------------------------------------ the process image
\* os.mem: the mapped bytes; os.prot: the protection of each mapped page;
\* os.log: every VirtualProtect call and every raw access, in program order;
\* os.crashed: an access violation has ended the process.
Ev(op, a, size, prot, ok) ==
    [op |-> op, a |-> a, size |-> size, prot |-> prot, ok |-> ok]

Emit(o, e) == [o EXCEPT !.log = Append(@, e)]

\* The system refuses at most MaxRefusals protection changes in a run: the
\* answers `grants` may be handed to a call only while that leaves room.
Refusals(o) ==
    Cardinality({k \in DOMAIN o.log :
                   o.log[k].op \in {"unprotect", "reprotect"} /\ ~o.log[k].ok})
MayAnswer(o, grants) ==
    Refusals(o) + Cardinality({k \in DOMAIN grants : ~grants[k]}) <= MaxRefusals

\* The bytes p, p+1, ..., p+size-1 (no wrap: a range that runs past the end of
\* the address space is not a range of this process).
Range(p, size) == {a \in Addr : a >= p /\ a < p + size}
InSpace(p, size) == p + size <= AddrSpace
PagesOf(p, size) == {PageOf(a) : a \in Range(p, size)}

\* VirtualProtect(p, size, newprot, &old): kernel32.  `grant` is the system's
\* answer when the request is well formed; a zero size, a range outside the
\* address space or one touching an unmapped page is refused.  On success every
\* page holding a byte of the range takes newprot and old receives the former
\* protection of the first of these pages.
VirtualProtectOk(o, p, size, grant) ==
    /\ grant
    /\ size # 0
    /\ InSpace(p, size)
    /\ PagesOf(p, size) \subseteq MappedPages

VirtualProtect(o, p, size, newprot, grant) ==
    IF VirtualProtectOk(o, p, size, grant)
    THEN [os  |-> [o EXCEPT !.prot = [pg \in MappedPages |->
                                        IF pg \in PagesOf(p, size) THEN newprot ELSE @[pg]]],
          ret |-> TRUE,
          old |-> o.prot[PageOf(p)]]
    ELSE [os |-> o, ret |-> FALSE, old |-> NoProt]

\* ----------------------------------------------------------------- raw_ptr
\* raw_ptr::unprotect(size, old_prot): old is what the call stored through
\* old_prot, NoProt when it stored nothing.
raw_unprotect(o, p, size, grant) ==
    LET r == VirtualProtect(o, p, size, PAGE_EXECUTE_READWRITE, grant)
    IN  [os  |-> Emit(r.os, Ev("unprotect", p, size, r.old, r.ret)),
         ret |-> r.ret,
         old |-> r.old]

\* raw_ptr::reprotect(size, prot)
raw_reprotect(o, p, size, prot, grant) ==
    LET r == VirtualProtect(o, p, size, prot, grant)
    IN  [os  |-> Emit(r.os, Ev("reprotect", p, size, prot, r.ret)),
         ret |-> r.ret]

\* A T of n bytes is stored least significant byte first.
ByteAt(v, k) == (v \div (ByteBase ^ k)) % ByteBase
RECURSIVE Load(_, _, _)
Load(mem, p, n) ==
    IF n = 0 THEN 0 ELSE mem[p] + ByteBase * Load(mem, p + 1, n - 1)

\* Whether the n bytes at p can be accessed: all mapped, on pages that allow it.
Accessible(o, p, n, access) ==
    /\ InSpace(p, n)
    /\ \A a \in Range(p, n) :
         /\ a \in MemAddrs
         /\ IF access = "read" THEN Readable(o.prot[PageOf(a)])
                               ELSE Writable(o.prot[PageOf(a)])

Fault(o, e) == [Emit(o, e) EXCEPT !.crashed = TRUE]

\* raw_ptr::read<T>(), sizeof(T) = n: *reinterpret_cast<T*>(p).  An access the
\* pages do not allow is an access violation.
raw_read(o, p, n) ==
    IF Accessible(o, p, n, "read")
    THEN [os |-> Emit(o, Ev("read", p, n, NoProt, TRUE)), value |-> Load(o.mem, p, n)]
    ELSE [os |-> Fault(o, Ev("read", p, n, NoProt, FALSE)), value |-> 0]

\* write<T> with the bytes of the value in the opposite order.
raw_write_swapped(o, p, n, value) ==
    IF Accessible(o, p, n, "write")
    THEN [os |-> Emit([o EXCEPT !.mem = [a \in MemAddrs |->
                          IF a \in Range(p, n) THEN ByteAt(value, n - 1 - (a - p)) ELSE @[a]]],
                      Ev("write", p, n, NoProt, TRUE))]
    ELSE [os |-> Fault(o, Ev("write", p, n, NoProt, FALSE))]

\* raw_ptr::write<T>(value): *reinterpret_cast<T*>(p) = value.
raw_write(o, p, n, value) ==
    IF Accessible(o, p, n, "write")
    THEN [os |-> Emit([o EXCEPT !.mem = [a \in MemAddrs |->
                          IF a \in Range(p, n) THEN ByteAt(value, a - p) ELSE @[a]]],
                      Ev("write", p, n, NoProt, TRUE))]
    ELSE [os |-> Fault(o, Ev("write", p, n, NoProt, FALSE))]

\* raw_ptr::fill(value, size): std::memset(p, value, size).
raw_fill(o, p, value, size) ==
    IF Accessible(o, p, size, "write")
    THEN [os |-> Emit([o EXCEPT !.mem = [a \in MemAddrs |->
                          IF a \in Range(p, size) THEN value ELSE @[a]]],
                      Ev("fill", p, size, NoProt, TRUE))]
    ELSE [os |-> Fault(o, Ev("fill", p, size, NoProt, FALSE))]

\* ------------------------------------------------------ conversion registry
\* conv_pointer<integral or pointer>::convert: raw_ptr(x), the bit pattern of x
\* taken as an address.
into_ptr(x) == Wrap(x)

\* conv_pointer<raw_ptr>::convert, raw_ptr::fast_ptr = raw_ptr.
faster_ptr(p) == p

\* --------------------------------------------------------- scoped_unprotect
\* A guard object: life is "none" before construction, "alive", then "dead";
\* addr, size, oldprot are the members.  The operators work on a map of guard
\* objects so that an object may alias another (g = std::move(g)).
NoGuard == [life |-> "none", addr |-> 0, size |-> 0, oldprot |-> NoProt]

\* scoped_unprotect::unprotected()
unprotected(g) == g.size # 0

\* Mutant of scoped_unprotect: the result of addr.unprotect() is ignored and
\* size is stored whenever it is not zero.
scoped_unprotect_ignores_failure(o, gs, i, addr, size, grant, junk) ==
    LET p == faster_ptr(addr)
        r == raw_unprotect(o, p, size, grant)
    IN  IF size # 0
        THEN [os |-> r.os,
              gs |-> [gs EXCEPT ![i] =
                        [life |-> "alive", addr |-> p, size |-> size,
                         oldprot |-> IF r.ret THEN r.old ELSE junk]]]
        ELSE [os |-> o,
              gs |-> [gs EXCEPT ![i] =
                        [life |-> "alive", addr |-> p, size |-> 0, oldprot |-> junk]]]

\* scoped_unprotect(MemoryPointer addr, std::size_t size).  oldprot is not
\* initialised: it holds `junk` unless the unprotect call stored into it.
scoped_unprotect(o, gs, i, addr, size, grant, junk) ==
    LET p == faster_ptr(addr)
    IN  IF size # 0
        THEN LET r == raw_unprotect(o, p, size, grant)
             IN  [os |-> r.os,
                  gs |-> [gs EXCEPT ![i] =
                            [life |-> "alive", addr |-> p,
                             size |-> IF r.ret THEN size ELSE 0,
                             oldprot |-> IF r.ret THEN r.old ELSE junk]]]
        ELSE [os |-> o,
              gs |-> [gs EXCEPT ![i] =
                        [life |-> "alive", addr |-> p, size |-> 0, oldprot |-> junk]]]

\* Mutant of restore: the unprotected() test is missing.
restore_unchecked(o, gs, i, grant) ==
    LET r == raw_reprotect(o, gs[i].addr, gs[i].size, gs[i].oldprot, grant)
    IN  [os |-> r.os, gs |-> [gs EXCEPT ![i].size = 0]]

\* scoped_unprotect::restore()
restore(o, gs, i, grant) ==
    IF unprotected(gs[i])
    THEN LET r == raw_reprotect(o, gs[i].addr, gs[i].size, gs[i].oldprot, grant)
         IN  [os |-> r.os, gs |-> [gs EXCEPT ![i].size = 0]]
    ELSE [os |-> o, gs |-> gs]

\* scoped_unprotect::forget()
forget(gs, i) == [gs EXCEPT ![i].size = 0]

\* Mutant of move_assign: rhs.size = 0 is missing, rhs stays active.
move_assign_keeps_rhs(o, gs, i, j, grant, leftover) ==
    LET r  == restore(o, gs, i, grant)
        g1 == r.gs
        g2 == [g1 EXCEPT ![i].addr = g1[j].addr]
        g3 == [g2 EXCEPT ![i].size = g2[j].size]
    IN  [os |-> r.os, gs |-> [g3 EXCEPT ![i].oldprot = g3[j].oldprot], ret |-> leftover]

\* Mutant of move_assign: restore() is called after rhs's members were taken.
move_assign_restores_late(o, gs, i, j, grant, leftover) ==
    LET g2 == [gs EXCEPT ![i].addr = gs[j].addr]
        g3 == [g2 EXCEPT ![i].size = g2[j].size]
        g4 == [g3 EXCEPT ![i].oldprot = g3[j].oldprot]
        g5 == [g4 EXCEPT ![j].size = 0]
        r  == restore(o, g5, i, grant)
    IN  [os |-> r.os, gs |-> [r.gs EXCEPT ![i] = g5[i]], ret |-> leftover]

\* scoped_unprotect::operator=(scoped_unprotect&& rhs), this = gs[i], rhs = gs[j].
\* The body ends without a return statement, so the reference the caller gets
\* is whatever the build leaves there: the object `leftover`.
move_assign(o, gs, i, j, grant, leftover) ==
    LET r  == restore(o, gs, i, grant)
        g1 == r.gs
        g2 == [g1 EXCEPT ![i].addr = g1[j].addr]
        g3 == [g2 EXCEPT ![i].size = g2[j].size]
        g4 == [g3 EXCEPT ![i].oldprot = g3[j].oldprot]
    IN  [os |-> r.os, gs |-> [g4 EXCEPT ![j].size = 0], ret |-> leftover]

\* Mutant of move_construct: this->size = 0 is missing, so operator= restores
\* whatever the uninitialised members hold.
move_construct_no_reset(o, gs, i, j, grant, junk, leftover) ==
    LET g0 == [gs EXCEPT ![i] =
                 [life |-> "alive", addr |-> 0, size |-> 1, oldprot |-> junk]]
    IN  [os |-> move_assign(o, g0, i, j, grant, leftover).os,
         gs |-> move_assign(o, g0, i, j, grant, leftover).gs]

\* scoped_unprotect(scoped_unprotect&& rhs): addr is default-constructed
\* (null), size is set to 0, then *this = std::move(rhs), whose result is
\* discarded.
move_construct(o, gs, i, j, grant, junk, leftover) ==
    LET g0 == [gs EXCEPT ![i] =
                 [life |-> "alive", addr |-> 0, size |-> 0, oldprot |-> junk]]
    IN  [os |-> move_assign(o, g0, i, j, grant, leftover).os,
         gs |-> move_assign(o, g0, i, j, grant, leftover).gs]

\* ~scoped_unprotect()
destroy(o, gs, i, grant) ==
    LET r == restore(o, gs, i, grant)
    IN  [os |-> r.os, gs |-> [r.gs EXCEPT ![i].life = "dead"]]

\* unprotect(IntoPointer addr, size_t size) -> scoped_unprotect: the guard is
\* constructed in place in the caller's object (a returned prvalue).
unprotect_guard(o, gs, i, addr, size, grant, junk) ==
    LET xaddr == into_ptr(addr)
    IN  scoped_unprotect(o, gs, i, xaddr, size, grant, junk)

\* ------------------------------------------- unprotect / reprotect (free)
\* unprotect(IntoPointer addr, size_t size, uint32_t& oldprot): the body calls
\* into_ptr(addr).unprotect(size, &oldprot) and ends without a return
\* statement, so the bool the caller gets is whatever the build leaves there:
\* `leftover`.  handle is what the handle's call returned.
unprotect_free(o, addr, size, grant, leftover) ==
    LET r == raw_unprotect(o, into_ptr(addr), size, grant)
    IN  [os |-> r.os, handle |-> r.ret, oldprot |-> r.old, ret |-> leftover]

\* reprotect(IntoPointer addr, size_t size, uint32_t oldprot): likewise.
reprotect_free(o, addr, size, oldprot, grant, leftover) ==
    LET r == raw_reprotect(o, into_ptr(addr), size, oldprot, grant)
    IN  [os |-> r.os, handle |-> r.ret, ret |-> leftover]

\* ------------------------------------------------------ read / write / fill
\* The guard of a call is a local object, number 0 of a map of its own.
Local == [x \in {0} |-> NoGuard]

\* write<T>(addr, value, vp), sizeof(T) = n.  The guard is destroyed when the
\* function returns; an access violation ends the process before that.
write(o, addr, n, value, vp, grant1, grant2, junk) ==
    LET ptr == into_ptr(addr)
        g   == unprotect_guard(o, Local, 0, ptr, IF vp THEN n ELSE 0, grant1, junk)
        w   == raw_write(g.os, ptr, n, value)
    IN  IF w.os.crashed
        THEN [os |-> w.os]
        ELSE [os |-> destroy(w.os, g.gs, 0, grant2).os]

\* read<T>(addr, vp), sizeof(T) = n.
read(o, addr, n, vp, grant1, grant2, junk) ==
    LET ptr == into_ptr(addr)
        g   == unprotect_guard(o, Local, 0, ptr, IF vp THEN n ELSE 0, grant1, junk)
        r   == raw_read(g.os, ptr, n)
    IN  IF r.os.crashed
        THEN [os |-> r.os, value |-> r.value]
        ELSE [os |-> destroy(r.os, g.gs, 0, grant2).os, value |-> r.value]

\* fill(addr, value, size, vp)
fill(o, addr, value, size, vp, grant1, grant2, junk) ==
    LET ptr == into_ptr(addr)
        g   == unprotect_guard(o, Local, 0, ptr, IF vp THEN size ELSE 0, grant1, junk)
        f   == raw_fill(g.os, ptr, value, size)
    IN  IF f.os.crashed
        THEN [os |-> f.os]
        ELSE [os |-> destroy(f.os, g.gs, 0, grant2).os]

\* -------------------------------------------------------------- adjust
\* adjust(addr, old_begin, old_end, new_begin, max_search, vp), lines 161-165:
\* the locals before the loop.  ptr + max_search is raw_ptr::operator+.
adjust_enter(loc, addr, old_begin, old_end, new_begin, max_search, vp) ==
    LET ptr == into_ptr(addr)
    IN  [loc EXCEPT !.pc = "loop",
                    !.ptr = ptr,
                    !.ptr_end = Wrap(ptr + max_search),
                    !.begin = into_ptr(old_begin),
                    !.end = into_ptr(old_end),
                    !.newbeg = faster_ptr(new_begin),
                    !.vp = vp,
                    !.ret = 0]

\* adjust's loop reading under a guard whatever vp says.
adjust_step_guards_reads(o, loc, grant1, grant2, grant3, grant4, junk) ==
    IF loc.ptr < loc.ptr_end
    THEN LET rd    == read(o, loc.ptr, PtrSize, TRUE, grant1, grant2, junk)
             value == rd.value
         IN  IF rd.os.crashed
             THEN [os |-> rd.os, adj |-> loc]
             ELSE IF value >= loc.begin /\ value < loc.end
                  THEN LET replace == Wrap(loc.newbeg + Wrap(value - loc.begin))
                           wr == write(rd.os, loc.ptr, PtrSize, replace, loc.vp,
                                       grant3, grant4, junk)
                       IN  [os  |-> wr.os,
                            adj |-> IF wr.os.crashed
                                    THEN loc
                                    ELSE [loc EXCEPT !.pc = "returned", !.ret = replace]]
                  ELSE [os |-> rd.os, adj |-> [loc EXCEPT !.ptr = Wrap(@ + 1)]]
    ELSE [os |-> o, adj |-> [loc EXCEPT !.pc = "returned", !.ret = 0]]

\* adjust's loop going on after a match instead of returning.
adjust_step_keeps_scanning(o, loc, grant1, grant2, grant3, grant4, junk) ==
    IF loc.ptr < loc.ptr_end
    THEN LET rd    == read(o, loc.ptr, PtrSize, loc.vp, grant1, grant2, junk)
             value == rd.value
         IN  IF rd.os.crashed
             THEN [os |-> rd.os, adj |-> loc]
             ELSE IF value >= loc.begin /\ value < loc.end
                  THEN LET replace == Wrap(loc.newbeg + Wrap(value - loc.begin))
                           wr == write(rd.os, loc.ptr, PtrSize, replace, loc.vp,
                                       grant3, grant4, junk)
                       IN  [os  |-> wr.os,
                            adj |-> IF wr.os.crashed
                                    THEN loc
                                    ELSE [loc EXCEPT !.ptr = Wrap(@ + 1), !.ret = replace]]
                  ELSE [os |-> rd.os, adj |-> [loc EXCEPT !.ptr = Wrap(@ + 1)]]
    ELSE [os |-> o, adj |-> [loc EXCEPT !.pc = "returned"]]

\* adjust's loop taking old_end itself for a value of the range.
adjust_step_inclusive_end(o, loc, grant1, grant2, grant3, grant4, junk) ==
    IF loc.ptr < loc.ptr_end
    THEN LET rd    == read(o, loc.ptr, PtrSize, loc.vp, grant1, grant2, junk)
             value == rd.value
         IN  IF rd.os.crashed
             THEN [os |-> rd.os, adj |-> loc]
             ELSE IF value >= loc.begin /\ value <= loc.end
                  THEN LET replace == Wrap(loc.newbeg + Wrap(value - loc.begin))
                           wr == write(rd.os, loc.ptr, PtrSize, replace, loc.vp,
                                       grant3, grant4, junk)
                       IN  [os  |-> wr.os,
                            adj |-> IF wr.os.crashed
                                    THEN loc
                                    ELSE [loc EXCEPT !.pc = "returned", !.ret = replace]]
                  ELSE [os |-> rd.os, adj |-> [loc EXCEPT !.ptr = Wrap(@ + 1)]]
    ELSE [os |-> o, adj |-> [loc EXCEPT !.pc = "returned", !.ret = 0]]

\* adjust's loop leaving old_begin itself out of the range.
adjust_step_exclusive_begin(o, loc, grant1, grant2, grant3, grant4, junk) ==
    IF loc.ptr < loc.ptr_end
    THEN LET rd    == read(o, loc.ptr, PtrSize, loc.vp, grant1, grant2, junk)
             value == rd.value
         IN  IF rd.os.crashed
             THEN [os |-> rd.os, adj |-> loc]
             ELSE IF value > loc.begin /\ value < loc.end
                  THEN LET replace == Wrap(loc.newbeg + Wrap(value - loc.begin))
                           wr == write(rd.os, loc.ptr, PtrSize, replace, loc.vp,
                                       grant3, grant4, junk)
                       IN  [os  |-> wr.os,
                            adj |-> IF wr.os.crashed
                                    THEN loc
                                    ELSE [loc EXCEPT !.pc = "returned", !.ret = replace]]
                  ELSE [os |-> rd.os, adj |-> [loc EXCEPT !.ptr = Wrap(@ + 1)]]
    ELSE [os |-> o, adj |-> [loc EXCEPT !.pc = "returned", !.ret = 0]]

\* adjust's loop without ++ptr.
adjust_step_stays(o, loc, grant1, grant2, grant3, grant4, junk) ==
    IF loc.ptr < loc.ptr_end
    THEN LET rd    == read(o, loc.ptr, PtrSize, loc.vp, grant1, grant2, junk)
             value == rd.value
         IN  IF rd.os.crashed
             THEN [os |-> rd.os, adj |-> loc]
             ELSE IF value >= loc.begin /\ value < loc.end
                  THEN LET replace == Wrap(loc.newbeg + Wrap(value - loc.begin))
                           wr == write(rd.os, loc.ptr, PtrSize, replace, loc.vp,
                                       grant3, grant4, junk)
                       IN  [os  |-> wr.os,
                            adj |-> IF wr.os.crashed
                                    THEN loc
                                    ELSE [loc EXCEPT !.pc = "returned", !.ret = replace]]
                  ELSE [os |-> rd.os, adj |-> loc]
    ELSE [os |-> o, adj |-> [loc EXCEPT !.pc = "returned", !.ret = 0]]

\* One evaluation of the loop condition and, if it holds, one pass through
\* the body (lines 169-180).  nullptr is the raw_ptr 0.
adjust_step(o, loc, grant1, grant2, grant3, grant4, junk) ==
    IF loc.ptr < loc.ptr_end
    THEN LET rd    == read(o, loc.ptr, PtrSize, loc.vp, grant1, grant2, junk)
             value == rd.value
         IN  IF rd.os.crashed
             THEN [os |-> rd.os, adj |-> loc]
             ELSE IF value >= loc.begin /\ value < loc.end
                  THEN LET replace == Wrap(loc.newbeg + Wrap(value - loc.begin))
                           wr == write(rd.os, loc.ptr, PtrSize, replace, loc.vp,
                                       grant3, grant4, junk)
                       IN  [os  |-> wr.os,
                            adj |-> IF wr.os.crashed
                                    THEN loc
                                    ELSE [loc EXCEPT !.pc = "returned", !.ret = replace]]
                  ELSE [os |-> rd.os, adj |-> [loc EXCEPT !.ptr = Wrap(@ + 1)]]
    ELSE [os |-> o, adj |-> [loc EXCEPT !.pc = "returned", !.ret = 0]]

\* ------------------------------------------------- a program using guards
\* guards[i] are the program's guard objects.  last names the call that was
\* just made and pre holds what the call started from.
GuardIds == 1 .. NumGuards
GuardAddrs == {MemBase + PageSize - 1, MemBase + PageSize}
GuardSizes == {0, PageSize}

\* Guard objects are numbered in the order the program constructs them.
Fresh(i) == guards[i].life = "none" /\ \A k \in GuardIds : k < i => guards[k].life # "none"

NoCall == [op |-> "none", i |-> 0, j |-> 0, addr |-> 0, size |-> 0]
Snapshot == [guards |-> guards, log |-> Len(os.log), prot |-> os.prot, mem |-> os.mem]

\* The image at start: zeroed data; the first mapped page is read-only (code),
\* the others are read-write (data).
InitImage ==
    [mem |-> [a \in MemAddrs |-> 0],
     prot |-> [pg \in MappedPages |->
                 IF pg = PageOf(MemBase) THEN PAGE_READONLY ELSE PAGE_READWRITE],
     log |-> << >>,
     crashed |-> FALSE]

InitGuards ==
    /\ os = InitImage
    /\ guards = [i \in GuardIds |-> NoGuard]
    /\ last = NoCall
    /\ pre = [guards |-> guards, log |-> 0, prot |-> os.prot, mem |-> os.mem]
    /\ adj = [pc |-> "off", calls |-> 0]

Called(op, i, j, addr, size) ==
    /\ adj.calls < MaxCalls
    /\ last' = [op |-> op, i |-> i, j |-> j, addr |-> addr, size |-> size]
    /\ pre' = Snapshot
    /\ adj' = [adj EXCEPT !.calls = @ + 1]

\* auto g = injector::unprotect(addr, size);
Construct(i) ==
    /\ Fresh(i)
    /\ \E addr \in GuardAddrs, size \in GuardSizes, grant \in BOOLEAN, junk \in Junk :
         LET r == unprotect_guard(os, guards, i, addr, size, grant, junk)
         IN  /\ MayAnswer(os, <<grant>>)
             /\ os' = r.os
             /\ guards' = r.gs
             /\ Called("construct", i, 0, addr, size)

\* g.restore();
Restore(i) ==
    /\ guards[i].life = "alive"
    /\ \E grant \in BOOLEAN :
         LET r == restore(os, guards, i, grant)
         IN  /\ MayAnswer(os, <<grant>>)
             /\ os' = r.os
             /\ guards' = r.gs
             /\ Called("restore", i, 0, 0, 0)

\* g.forget();
\* (The log gets a "forget" mark when an active guard forgets its region: the
\* call itself touches nothing but the guard.)
Forget(i) ==
    /\ guards[i].life = "alive"
    /\ os' = IF unprotected(guards[i])
             THEN Emit(os, Ev("forget", guards[i].addr, guards[i].size, guards[i].oldprot, TRUE))
             ELSE os
    /\ guards' = forget(guards, i)
    /\ Called("forget", i, 0, 0, 0)

\* scoped_unprotect<> g(std::move(h));
MoveConstruct(i, j) ==
    /\ Fresh(i)
    /\ guards[j].life = "alive"
    /\ \E grant \in BOOLEAN, junk \in Junk, leftover \in GuardIds :
         LET r == move_construct(os, guards, i, j, grant, junk, leftover)
         IN  /\ MayAnswer(os, <<grant>>)
             /\ os' = r.os
             /\ guards' = r.gs
             /\ Called("move_construct", i, j, 0, 0)

\* g = std::move(h);
MoveAssign(i, j) ==
    /\ guards[i].life = "alive"
    /\ guards[j].life = "alive"
    /\ \E grant \in BOOLEAN, leftover \in GuardIds :
         LET r == move_assign(os, guards, i, j, grant, leftover)
         IN  /\ MayAnswer(os, <<grant>>)
             /\ os' = r.os
             /\ guards' = r.gs
             /\ Called("move_assign", i, j, 0, 0)

\* g goes out of scope.
Destroy(i) ==
    /\ guards[i].life = "alive"
    /\ \E grant \in BOOLEAN :
         LET r == destroy(os, guards, i, grant)
         IN  /\ MayAnswer(os, <<grant>>)
             /\ os' = r.os
             /\ guards' = r.gs
             /\ Called("destroy", i, 0, 0, 0)

NextGuards ==
    \/ \E i \in GuardIds : Construct(i)
    \/ \E i \in GuardIds : Restore(i)
    \/ \E i \in GuardIds : Forget(i)
    \/ \E i, j \in GuardIds : MoveConstruct(i, j)
    \/ \E i, j \in GuardIds : MoveAssign(i, j)
    \/ \E i \in GuardIds : Destroy(i)

SpecGuards == InitGuards /\ [][NextGuards]_vars

\* ------------------------------------------------------ reading the log
Triple(e) == <<e.a, e.size, e.prot>>
GuardTriple(g) == <<g.addr, g.size, g.oldprot>>
Entries(op) == {k \in DOMAIN os.log : os.log[k].op = op}
Triples == {Triple(os.log[k]) : k \in DOMAIN os.log}

\* Successful unprotects of (addr, size) that captured the token, reprotect
\* calls with (addr, size, token), forgets of it, and guards now holding it.
Acquired(t) ==
    Cardinality({k \in Entries("unprotect") : os.log[k].ok /\ Triple(os.log[k]) = t})
Reprotected(t) ==
    Cardinality({k \in Entries("reprotect") : Triple(os.log[k]) = t})
Forgotten(t) ==
    Cardinality({k \in Entries("forget") : Triple(os.log[k]) = t})
Holding(t) ==
    Cardinality({i \in GuardIds : unprotected(guards[i]) /\ GuardTriple(guards[i]) = t})

AllGone ==
    /\ \E i \in GuardIds : guards[i].life = "dead"
    /\ \A i \in GuardIds : guards[i].life # "alive"

NewEntries == SubSeq(os.log, pre.log + 1, Len(os.log))
SameMembers(g, h) == g.addr = h.addr /\ g.size = h.size /\ g.oldprot = h.oldprot

\* ------------------------------------------------------------------ C1
\* C1 as stated: once every guard is destroyed, each region a guard
\* unprotected has been reprotected exactly once with the captured address,
\* size and token, whatever restore/forget/move/destroy calls were made.
C1_RestoredExactlyOnce ==
    AllGone => \A t \in Triples : Acquired(t) = Reprotected(t)

\* C1 amended: every successful unprotect is answered by exactly one of: one
\* reprotect call with the captured address, size and token, or one forget();
\* until then exactly one live guard holds it, and a destroyed guard holds
\* nothing.  So with all guards destroyed each region was reprotected exactly
\* once unless forget() was called on the guard that owned it, in which case
\* it is never reprotected.
C1_RestoredOnceUnlessForgotten ==
    /\ \A t \in Triples : Acquired(t) = Reprotected(t) + Forgotten(t) + Holding(t)
    /\ \A i \in GuardIds : guards[i].life # "alive" => ~unprotected(guards[i])

C1_Witness ==
    /\ AllGone
    /\ Entries("forget") = {}
    /\ \E t \in Triples : Acquired(t) = 1 /\ Reprotected(t) = 1
    /\ \A i \in GuardIds : guards[i].life = "dead"

\* ------------------------------------------------------------------ C2
\* C2: restore() or destruction of a guard that is no longer active makes no
\* OS call and changes neither the guard's members nor any page protection;
\* no (address, size, token) is reprotected more often than it was captured.
C2_ReleaseIdempotent ==
    /\ (last.op \in {"restore", "destroy"} /\ ~unprotected(pre.guards[last.i]))
         => /\ Len(os.log) = pre.log
            /\ os.prot = pre.prot
            /\ SameMembers(guards[last.i], pre.guards[last.i])
            /\ \A k \in GuardIds : k # last.i => guards[k] = pre.guards[k]
    /\ \A t \in Triples : Reprotected(t) <= Acquired(t)

\* A second restore(): the guard's own reprotect is already in the log.
C2_Witness ==
    /\ last.op = "restore"
    /\ ~unprotected(pre.guards[last.i])
    /\ \E k \in Entries("reprotect") :
         /\ os.log[k].a = guards[last.i].addr
         /\ os.log[k].prot = guards[last.i].oldprot

\* ------------------------------------------------------------------ C3
\* C3: after g2(std::move(g1)): g1 is inactive, g2 is active iff g1 was, and
\* then has g1's address, size and token; the move made no OS call; and the
\* destructor of g1, run from here, makes none either.
C3_MoveConstruct ==
    last.op = "move_construct" =>
        LET g2 == guards[last.i]
            g1 == guards[last.j]
            was == pre.guards[last.j]
        IN  /\ ~unprotected(g1)
            /\ unprotected(g2) <=> unprotected(was)
            /\ unprotected(was) => SameMembers(g2, was)
            /\ Len(os.log) = pre.log
            /\ os.prot = pre.prot
            /\ \A grant \in BOOLEAN :
                 destroy(os, guards, last.j, grant).os = os

C3_Witness ==
    /\ last.op = "move_construct"
    /\ unprotected(pre.guards[last.j])
    /\ unprotected(guards[last.i])

C5_ActiveIffUnprotected ==
    /\ last.op = "construct" =>
         LET g == guards[last.i]
         IN  /\ g.addr = into_ptr(last.addr)
             /\ last.size = 0 => (Len(NewEntries) = 0 /\ ~unprotected(g))
             /\ last.size # 0 =>
                  /\ Len(NewEntries) = 1
                  /\ NewEntries[1].op = "unprotect"
                  /\ NewEntries[1].a = into_ptr(last.addr)
                  /\ NewEntries[1].size = last.size
                  /\ unprotected(g) <=> NewEntries[1].ok
                  /\ NewEntries[1].ok =>
                       (g.size = last.size /\ g.oldprot = NewEntries[1].prot)
             /\ ~unprotected(g) =>
                  \A grant \in BOOLEAN :
                     /\ restore(os, guards, last.i, grant).os = os
                     /\ destroy(os, guards, last.i, grant).os = os
    /\ (last.op \in {"restore", "destroy", "move_assign", "move_construct"}
          /\ ~unprotected(pre.guards[last.i]))
         => Len(os.log) = pre.log

\* The unprotect was refused: the guard is inactive.
C5_Witness ==
    /\ last.op = "construct"
    /\ last.size # 0
    /\ Len(NewEntries) = 1
    /\ ~NewEntries[1].ok
    /\ ~unprotected(guards[last.i])

\* ------------------------------- a program pairing unprotect and reprotect
\* uint32_t oldprot; bool b = injector::unprotect(addr, size, oldprot);
FreeUnprotect ==
    /\ adj.pc = "free"
    /\ adj.calls < MaxOps
    /\ \E addr \in GuardAddrs, size \in GuardSizes, grant \in BOOLEAN, leftover \in BOOLEAN :
         LET r == unprotect_free(os, addr, size, grant, leftover)
         IN  /\ MayAnswer(os, <<grant>>)
             /\ os' = r.os
             /\ last' = [op |-> "unprotect", addr |-> addr, size |-> size,
                         oldprot |-> r.oldprot, handle |-> r.handle, ret |-> r.ret]
    /\ pre' = Snapshot
    /\ adj' = [adj EXCEPT !.calls = @ + 1]
    /\ guards' = guards

\* bool b = injector::reprotect(addr, size, oldprot);
FreeReprotect ==
    /\ adj.pc = "free"
    /\ adj.calls < MaxOps
    /\ \E addr \in GuardAddrs, size \in GuardSizes, grant \in BOOLEAN, leftover \in BOOLEAN,
          oldprot \in {PAGE_READONLY, PAGE_READWRITE} :
         LET r == reprotect_free(os, addr, size, oldprot, grant, leftover)
         IN  /\ MayAnswer(os, <<grant>>)
             /\ os' = r.os
             /\ last' = [op |-> "reprotect", addr |-> addr, size |-> size,
                         oldprot |-> oldprot, handle |-> r.handle, ret |-> r.ret]
    /\ pre' = Snapshot
    /\ adj' = [adj EXCEPT !.calls = @ + 1]
    /\ guards' = guards

InitFree ==
    /\ os = InitImage
    /\ guards = [i \in GuardIds |-> NoGuard]
    /\ last = [op |-> "none", addr |-> 0, size |-> 0,
               oldprot |-> NoProt, handle |-> FALSE, ret |-> FALSE]
    /\ pre = [guards |-> guards, log |-> 0, prot |-> os.prot, mem |-> os.mem]
    /\ adj = [pc |-> "free", calls |-> 0]

NextFree == FreeUnprotect \/ FreeReprotect

SpecFree == InitFree /\ [][NextFree]_vars

\* ------------------------------------------------------------------ C6
\* C6: unprotect(addr, size, oldprot) and reprotect(addr, size, oldprot)
\* return true exactly when the handle's call succeeded, false when it failed.
C6_ReturnsOutcome ==
    last.op \in {"unprotect", "reprotect"} => last.ret = last.handle

\* --------------------------------------- a program reading and writing
\* adj.pc: "idle" between calls, "loop" inside adjust, "returned" after it.
\* adj.calls counts the calls made, adj.limit is how many the program makes.
AccessAddrs == {0, MemBase + PageSize - 1, MemBase + PageSize}
TSizes == {1, PtrSize}
Values(n) == IF n = 1 THEN {1, ByteBase - 1} ELSE {ByteBase + 2, 2 * ByteBase + 1}
FillSizes == {0, PtrSize}

Idle(limit) ==
    [pc |-> "idle", calls |-> 0, limit |-> limit, ptr |-> 0, ptr_end |-> 0,
     begin |-> 0, end |-> 0, newbeg |-> 0, vp |-> FALSE, ret |-> 0]

NoAccess ==
    [op |-> "none", addr |-> 0, size |-> 0, val |-> 0, vp |-> FALSE, ret |-> 0,
     valid |-> FALSE, prev |-> << >>]

\* What C7 needs of the call before the last one.
Prev == [op |-> last.op, addr |-> last.addr, size |-> last.size, val |-> last.val,
         valid |-> last.valid]

MayCall ==
    /\ adj.pc \in {"idle", "returned"}
    /\ adj.calls < adj.limit
    /\ ~os.crashed

Began(rec) ==
    /\ last' = rec
    /\ pre' = Snapshot
    /\ guards' = guards

\* injector::write<T>(addr, value, vp);
Write ==
    /\ MayCall
    /\ \E addr \in AccessAddrs, n \in TSizes, vp \in BOOLEAN,
          grant1 \in BOOLEAN, grant2 \in BOOLEAN, junk \in Junk :
         \E value \in Values(n) :
           /\ MayAnswer(os, <<grant1, grant2>>)
           /\ os' = write(os, addr, n, value, vp, grant1, grant2, junk).os
           /\ Began([op |-> "write", addr |-> addr, size |-> n, val |-> value,
                     vp |-> vp, ret |-> 0,
                     valid |-> Accessible(os, into_ptr(addr), n, "write"),
                     prev |-> Prev])
    /\ adj' = [adj EXCEPT !.calls = @ + 1, !.pc = "idle"]

\* T x = injector::read<T>(addr, vp);
Read ==
    /\ MayCall
    /\ \E addr \in AccessAddrs, n \in TSizes, vp \in BOOLEAN,
          grant1 \in BOOLEAN, grant2 \in BOOLEAN, junk \in Junk :
         LET r == read(os, addr, n, vp, grant1, grant2, junk)
         IN  /\ MayAnswer(os, <<grant1, grant2>>)
             /\ os' = r.os
             /\ Began([op |-> "read", addr |-> addr, size |-> n, val |-> 0,
                       vp |-> vp, ret |-> r.value,
                       valid |-> Accessible(os, into_ptr(addr), n, "read"),
                       prev |-> Prev])
    /\ adj' = [adj EXCEPT !.calls = @ + 1, !.pc = "idle"]

\* injector::fill(addr, value, size, vp);
Fill ==
    /\ MayCall
    /\ \E addr \in AccessAddrs, size \in FillSizes, vp \in BOOLEAN,
          grant1 \in BOOLEAN, grant2 \in BOOLEAN, junk \in Junk :
         /\ MayAnswer(os, <<grant1, grant2>>)
         /\ os' = fill(os, addr, ByteBase - 1, size, vp, grant1, grant2, junk).os
         /\ Began([op |-> "fill", addr |-> addr, size |-> size, val |-> ByteBase - 1,
                   vp |-> vp, ret |-> 0,
                   valid |-> Accessible(os, into_ptr(addr), size, "write"),
                   prev |-> Prev])
    /\ adj' = [adj EXCEPT !.calls = @ + 1, !.pc = "idle"]

InitMem ==
    /\ os = InitImage
    /\ guards = [i \in GuardIds |-> NoGuard]
    /\ last = NoAccess
    /\ pre = [guards |-> guards, log |-> 0, prot |-> os.prot, mem |-> os.mem]
    /\ adj = Idle(MaxOps)

NextMem == Write \/ Read \/ Fill

SpecMem == InitMem /\ [][NextMem]_vars

\* ------------------------------------------------- a program calling adjust
AdjustAddrs == AccessAddrs \ {0}
OldBegin == ByteBase
OldEnds == {ByteBase, 2 * ByteBase - 1}
NewBegins == {2 * ByteBase + 1, AddrSpace - 1}
Searches == (0 .. MaxSearch) \cup {AddrSpace - 1}

\* p = injector::adjust(addr, old_begin, old_end, new_begin, max_search, vp):
\* the call, up to the loop.
AdjustCall ==
    /\ MayCall
    /\ \E addr \in AdjustAddrs, old_end \in OldEnds, new_begin \in NewBegins,
          max_search \in Searches, vp \in BOOLEAN :
         /\ adj' = [adjust_enter(adj, addr, OldBegin, old_end, new_begin, max_search, vp)
                      EXCEPT !.calls = @ + 1]
         /\ Began([op |-> "adjust", addr |-> addr, size |-> max_search, val |-> new_begin,
                   vp |-> vp, ret |-> 0, valid |-> TRUE, prev |-> Prev])
    /\ os' = os

\* One turn of adjust's loop, or its return.
AdjustStep ==
    /\ adj.pc = "loop"
    /\ ~os.crashed
    /\ \E grant1 \in BOOLEAN, grant2 \in BOOLEAN, grant3 \in BOOLEAN, grant4 \in BOOLEAN,
          junk \in Junk :
         LET r == adjust_step(os, adj, grant1, grant2, grant3, grant4, junk)
         IN  /\ MayAnswer(os, <<grant1, grant2, grant3, grant4>>)
             /\ os' = r.os
             /\ adj' = r.adj
    /\ UNCHANGED <<last, pre, guards>>

\* The image the call finds: the bytes of the first mapped page are zero, the
\* bytes after it hold anything of MemBytes.
MemBytes == {0, 1, ByteBase - 1}
Images ==
    {m \in [MemAddrs -> MemBytes] : \A a \in MemAddrs : a < MemBase + PageSize => m[a] = 0}

InitCall ==
    /\ os \in {[InitImage EXCEPT !.mem = m] : m \in Images}
    /\ guards = [i \in GuardIds |-> NoGuard]
    /\ last = NoAccess
    /\ pre = [guards |-> guards, log |-> 0, prot |-> os.prot, mem |-> os.mem]
    /\ adj = Idle(1)

NextCall == Write \/ Read \/ Fill \/ AdjustCall \/ AdjustStep

SpecCall == InitCall /\ [][NextCall]_vars

\* ------------------------------------------------------------------ C7
\* C7: at a valid writable address, write<T>(addr, v) followed by
\* read<T>(addr) returns v, whatever vp is on either call, and the write
\* changes no byte outside [addr, addr + sizeof(T)).
C7_RoundTrip ==
    /\ (/\ last.op = "read"
        /\ last.prev.op = "write"
        /\ last.prev.valid
        /\ last.prev.addr = last.addr
        /\ last.prev.size = last.size)
       => (~os.crashed /\ last.ret = last.prev.val)
    /\ (last.op = "write" /\ last.valid)
       => /\ ~os.crashed
          /\ Load(os.mem, into_ptr(last.addr), last.size) = last.val
          /\ \A a \in MemAddrs :
               a \notin Range(into_ptr(last.addr), last.size) => os.mem[a] = pre.mem[a]

\* A pointer-sized value written and read back under vp, both protection
\* changes of the read granted.
C7_Witness ==
    /\ last.op = "read"
    /\ last.prev.op = "write"
    /\ last.prev.valid
    /\ last.prev.addr = last.addr
    /\ last.size = PtrSize
    /\ last.prev.size = PtrSize
    /\ last.vp
    /\ last.ret = last.prev.val
    /\ Len(NewEntries) = 3

\* ------------------------------------------------------------------ C8
Access == {"read", "write", "fill"}

\* The calls and accesses of the last operation, as (op, address, size).
Trace == [k \in DOMAIN NewEntries |->
            <<NewEntries[k].op, NewEntries[k].a, NewEntries[k].size>>]

\* The last operation ran under a guard that took the region and gave it back.
Guarded ==
    /\ last.op \in Access
    /\ last.vp
    /\ Len(NewEntries) = 3
    /\ NewEntries[1].op = "unprotect" /\ NewEntries[1].ok
    /\ NewEntries[3].op = "reprotect" /\ NewEntries[3].ok

\* C8: when read, write or fill runs with vp = true and the unprotect
\* succeeds, the access comes after the unprotect of exactly
\* [addr, addr + size) and before the matching reprotect, and once the
\* operation has returned the protection of the region is what it was before
\* the call.  Stated here for the runs in which the reprotect is granted too.
C8_ProtectionRestored ==
    Guarded =>
      /\ Trace = << <<"unprotect", into_ptr(last.addr), last.size>>,
                    <<last.op, into_ptr(last.addr), last.size>>,
                    <<"reprotect", into_ptr(last.addr), last.size>> >>
      /\ NewEntries[3].prot = NewEntries[1].prot
      /\ \A pg \in PagesOf(into_ptr(last.addr), last.size) : os.prot[pg] = pre.prot[pg]

\* ------------------------------------------------------------------ C9
ProtectionCalls ==
    {k \in DOMAIN NewEntries : NewEntries[k].op \in {"unprotect", "reprotect"}}

\* C9: read, write, fill and adjust called with vp = false make no unprotect
\* and no reprotect call, and the protection of every page is, at every step
\* of the operation, what it was when the operation began.
C9_NoProtectionCalls ==
    (last.op \in Access \cup {"adjust"} /\ ~last.vp)
      => (ProtectionCalls = {} /\ os.prot = pre.prot)

\* adjust, without vp, has scanned past a cell and rewritten the next one.
C9_Witness ==
    /\ last.op = "adjust"
    /\ ~last.vp
    /\ adj.pc = "returned"
    /\ Len(NewEntries) >= 3
    /\ os.mem # pre.mem

\* ------------------------------------------------------------------ C10
\* The offsets of the window [0, max_search) at which the image the call
\* found holds a pointer-sized value of [old_begin, old_end).
Cells ==
    {k \in 0 .. last.size - 1 :
       /\ InSpace(into_ptr(last.addr) + k, PtrSize)
       /\ Range(into_ptr(last.addr) + k, PtrSize) \subseteq MemAddrs}
Matches ==
    {k \in Cells :
       LET v == Load(pre.mem, into_ptr(last.addr) + k, PtrSize)
       IN  v >= adj.begin /\ v < adj.end}
Lowest == CHOOSE k \in Matches : \A m \in Matches : k <= m

\* What C10 says of a call that has returned: the cell at the lowest matching
\* offset holds new_begin + (v - old_begin), that value is returned, and every
\* other byte is as it was.
FirstMatchRewritten ==
    LET cell    == into_ptr(last.addr) + Lowest
        v       == Load(pre.mem, cell, PtrSize)
        replace == Wrap(adj.newbeg + Wrap(v - adj.begin))
    IN  /\ adj.ret = replace
        /\ adj.ptr = cell
        /\ Load(os.mem, cell, PtrSize) = replace
        /\ \A a \in MemAddrs : a \notin Range(cell, PtrSize) => os.mem[a] = pre.mem[a]

Returned == last.op = "adjust" /\ adj.pc = "returned"

\* C10 as stated: whenever some offset of [0, max_search) holds a value of
\* [old_begin, old_end), adjust rewrites the lowest such offset, returns the
\* value it stored and leaves every other byte unchanged.
C10_AnyWindow ==
    (Returned /\ Matches # {}) => FirstMatchRewritten

\* C10, for a window that ends inside the address space: when addr +
\* max_search does not wrap and some offset of [0, max_search) holds a value
\* of [old_begin, old_end), adjust rewrites the lowest such offset, returns
\* the value it stored and leaves every other byte unchanged.
C10_FirstMatchOnly ==
    (Returned /\ Matches # {} /\ into_ptr(last.addr) + last.size < AddrSpace)
      => FirstMatchRewritten

\* Two candidates in the window, the first of them at an odd offset.
C10_Witness ==
    /\ Returned
    /\ into_ptr(last.addr) + last.size < AddrSpace
    /\ Cardinality(Matches) >= 2
    /\ Lowest = 1
    /\ FirstMatchRewritten

\* ------------------------------------------------------------------ C11
\* The accesses of the last operation that stored something.
Stores == {k \in DOMAIN NewEntries : NewEntries[k].op \in {"write", "fill"}}

\* C11: when no offset of the window [addr, addr + max_search) holds a value
\* of [old_begin, old_end), adjust writes nothing, all memory is as it was,
\* and it returns the null handle.
C11_NoMatchNoWrite ==
    (Returned /\ Matches = {})
      => (adj.ret = 0 /\ os.mem = pre.mem /\ Stores = {})

\* A window of two cells or more scanned to its end without a match, the
\* range not empty and the value old_end among the values read.
C11_Witness ==
    /\ Returned
    /\ Matches = {}
    /\ adj.begin < adj.end
    /\ last.size >= 2
    /\ Len(NewEntries) >= 2
    /\ \E k \in Cells : Load(pre.mem, into_ptr(last.addr) + k, PtrSize) = adj.end
    /\ adj.ret = 0

\* ------------------------------------------------------------------ C12
\* The offsets whose pointer-sized value adjust has read, and those at which
\* it has gone on to write.
Scanned ==
    {k \in 0 .. last.size - 1 :
       \E e \in DOMAIN NewEntries :
         /\ NewEntries[e].op = "read"
         /\ NewEntries[e].ok
         /\ NewEntries[e].a = into_ptr(last.addr) + k}
Relocated ==
    {k \in 0 .. last.size - 1 :
       \E e \in Stores : NewEntries[e].a = into_ptr(last.addr) + k}
ValueAt(k) == Load(pre.mem, into_ptr(last.addr) + k, PtrSize)

\* C12: the range is half-open.  A value adjust has read is relocated exactly
\* when old_begin <= v < old_end: never when v = old_end, always when
\* v = old_begin < old_end, and nothing is when old_begin = old_end.
C12_HalfOpen ==
    last.op = "adjust" =>
      /\ Relocated \subseteq Scanned
      /\ \A k \in Scanned :
           k \in Relocated <=> (ValueAt(k) >= adj.begin /\ ValueAt(k) < adj.end)
      /\ \A k \in Scanned : ValueAt(k) = adj.end => k \notin Relocated
      /\ \A k \in Scanned :
           (ValueAt(k) = adj.begin /\ adj.begin < adj.end) => k \in Relocated
      /\ adj.begin = adj.end => Relocated = {}

\* A cell holding old_end was read and passed over, the next one relocated.
C12_Witness ==
    /\ Returned
    /\ \E k \in Scanned :
         /\ ValueAt(k) = adj.end
         /\ k \notin Relocated
         /\ k + 1 \in Relocated

\* ------------------------------------------------------------------ C13
IsRead(e) == e.op = "read"
ReadSeq == SelectSeq(NewEntries, IsRead)

\* The reads of the call so far are at addr, addr + 1, ... in this order, all
\* below addr + max_search, there is at most one write, and nothing but reads
\* and writes (and, under vp, their protection calls) is done.
ScanInOrder ==
    last.op = "adjust" =>
      /\ Len(ReadSeq) <= last.size
      /\ \A n \in DOMAIN ReadSeq : ReadSeq[n].a = into_ptr(last.addr) + (n - 1)
      /\ \A e \in DOMAIN NewEntries : NewEntries[e].op \in {"read", "write"}
                                        \/ last.vp
      /\ Cardinality(Stores) <= 1
      /\ (last.size = 0 /\ adj.pc = "returned") => (NewEntries = << >> /\ adj.ret = 0)

\* The cells the loop has still to look at.
Remaining == IF adj.ptr < adj.ptr_end THEN adj.ptr_end - adj.ptr ELSE 0

\* Inside the loop the next turn can always be taken: the step the code
\* takes when the system grants every request is a step.
TurnPossible ==
    (last.op = "adjust" /\ adj.pc = "loop" /\ ~os.crashed) =>
      LET r == adjust_step(os, adj, TRUE, TRUE, TRUE, TRUE, PAGE_NOACCESS)
      IN  /\ MayAnswer(os, <<TRUE, TRUE, TRUE, TRUE>>)
          /\ (r.adj # adj \/ r.os # os)

\* A turn of the loop ends the call, by a return or an access violation, or
\* leaves fewer cells to look at.
TurnAdvances ==
    (last.op = "adjust" /\ adj.pc = "loop") =>
      \/ adj'.pc = "returned"
      \/ os'.crashed
      \/ (adj'.pc = "loop" /\ Remaining' < Remaining)

\* C13: adjust terminates (a turn of its loop is always possible and each one
\* returns or leaves fewer of the at most max_search cells to look at); it
\* reads at addr + k for k = 0, 1, ... in ascending order with k < max_search
\* only, so at most max_search times, and writes at most once; with
\* max_search = 0 it accesses nothing and returns null.
C13_BoundedScan ==
    /\ [](ScanInOrder /\ TurnPossible /\ Remaining <= last.size)
    /\ [][TurnAdvances]_vars

\* A whole window of MaxSearch cells read, one after the other, then null.
C13_Witness ==
    /\ Returned
    /\ last.size = MaxSearch
    /\ Len(ReadSeq) = MaxSearch
    /\ Stores = {}
    /\ adj.ret = 0

\* ------------------------------------------------- a program nesting guards
\* { scoped_unprotect<> A(addr, size);
\*   { scoped_unprotect<> B(addr, size);  ...  }     B is released first
\* }                                                 then A
\* A is guard 1 and B guard 2; adj.pc is the scope the program is in.  A guard
\* is released by restore() or by its destructor.
NestAddrs == {MemBase + PageSize - 1, MemBase + PageSize}
NestSizes == {PtrSize, PageSize}
Releases == {"restore", "destroy"}

\* The protections the pages may have when the program starts.
NestImages ==
    {[InitImage EXCEPT !.prot = p] :
       p \in [MappedPages -> {PAGE_READONLY, PAGE_READWRITE}]}

release(o, gs, i, how, grant) ==
    IF how = "restore" THEN restore(o, gs, i, grant) ELSE destroy(o, gs, i, grant)

NestOpenA ==
    /\ adj.pc = "outside"
    /\ \E addr \in NestAddrs, size \in NestSizes, grant \in BOOLEAN, junk \in Junk :
         LET r == scoped_unprotect(os, guards, 1, addr, size, grant, junk)
         IN  /\ MayAnswer(os, <<grant>>)
             /\ os' = r.os
             /\ guards' = r.gs
             /\ last' = [op |-> "A", i |-> 1, j |-> 0, addr |-> addr, size |-> size]
    /\ pre' = Snapshot
    /\ adj' = [adj EXCEPT !.pc = "in A"]

NestOpenB ==
    /\ adj.pc = "in A"
    /\ \E grant \in BOOLEAN, junk \in Junk :
         LET r == scoped_unprotect(os, guards, 2, last.addr, last.size, grant, junk)
         IN  /\ MayAnswer(os, <<grant>>)
             /\ os' = r.os
             /\ guards' = r.gs
    /\ last' = [last EXCEPT !.op = "B", !.i = 2]
    /\ adj' = [adj EXCEPT !.pc = "in B"]
    /\ pre' = pre

NestCloseB ==
    /\ adj.pc = "in B"
    /\ \E how \in Releases, grant \in BOOLEAN :
         LET r == release(os, guards, 2, how, grant)
         IN  /\ MayAnswer(os, <<grant>>)
             /\ os' = r.os
             /\ guards' = r.gs
    /\ last' = [last EXCEPT !.op = "B released", !.i = 2]
    /\ adj' = [adj EXCEPT !.pc = "after B"]
    /\ pre' = pre

NestCloseA ==
    /\ adj.pc = "after B"
    /\ \E how \in Releases, grant \in BOOLEAN :
         LET r == release(os, guards, 1, how, grant)
         IN  /\ MayAnswer(os, <<grant>>)
             /\ os' = r.os
             /\ guards' = r.gs
    /\ last' = [last EXCEPT !.op = "A released", !.i = 1]
    /\ adj' = [adj EXCEPT !.pc = "done"]
    /\ pre' = pre

InitNested ==
    /\ os \in NestImages
    /\ guards = [i \in GuardIds |-> NoGuard]
    /\ last = NoCall
    /\ pre = [guards |-> guards, log |-> 0, prot |-> os.prot, mem |-> os.mem]
    /\ adj = [pc |-> "outside", calls |-> 0]

NextNested == NestOpenA \/ NestOpenB \/ NestCloseB \/ NestCloseA

SpecNested == InitNested /\ [][NextNested]_vars

\* ------------------------------------------------------------------ C14
\* Both guards took the region and both gave it back, no call refused.
NestedBothActive ==
    /\ adj.pc = "done"
    /\ Len(NewEntries) = 4
    /\ \A e \in DOMAIN NewEntries : NewEntries[e].ok

\* C14: B is created over A's region while A is active and released before
\* A.  After both are released B has reprotected with the token B captured, A
\* with the token A captured, and the protection of the region is what it was
\* before A was created.
C14_NestedRestores ==
    NestedBothActive =>
      /\ <<NewEntries[1].op, NewEntries[2].op, NewEntries[3].op, NewEntries[4].op>>
           = <<"unprotect", "unprotect", "reprotect", "reprotect">>
      /\ NewEntries[3].prot = NewEntries[2].prot
      /\ NewEntries[4].prot = NewEntries[1].prot
      /\ \A pg \in PagesOf(last.addr, last.size) : os.prot[pg] = pre.prot[pg]

====
